---- MODULE Spec2Model ----
(***************************************************************************)
(* Model of pydantic/decorator.py: validate_arguments(func) wraps a        *)
(* callable; every call of the wrapper (apply) runs the four pre           *)
(* validators of SignatureCheck, then validates the bound arguments with   *)
(* the generated model, then rebuilds the call and invokes func.           *)
(*                                                                         *)
(* Python values are represented as follows.                               *)
(*   - a parameter name is a string of Names;                              *)
(*   - a raw argument value is a string of Raw: "s1" is the string '1'     *)
(*     and "sx" the string 'x'; "i1" is the integer 1, which the callers   *)
(*     of the model do not supply but coercion to int produces;            *)
(*   - the dict sigcheck.args is a record [named, star]: named is the      *)
(*     ordered sequence of <<name, value>> items of the non-variadic keys  *)
(*     and star the tuple stored under vp_name (the key is present iff the *)
(*     tuple is non-empty, as inspect only stores a non-empty *args);      *)
(*   - the dict sigcheck.kwargs is a record [named, dstar, has]: named is  *)
(*     the map of the non-variadic keys, dstar the dict stored under       *)
(*     vk_name and has tells whether the key vk_name is present.           *)
(***************************************************************************)
EXTENDS Integers, Sequences, FiniteSets, TLC

\* Bounds of the model: the longest signature and the most positional values.
MaxParams == 2
MaxArgs == 2

\* Names of parameters and of the keywords a caller may supply.
Names == {"a", "b", "z"}
\* Raw values a caller may supply.
Raw == {"s1", "sx"}
\* None (no such parameter).
None == "None"

\* inspect.Parameter kinds, in the order Python's syntax enforces.
Kinds == {"POSITIONAL_ONLY", "POSITIONAL_OR_KEYWORD", "VAR_POSITIONAL",
          "KEYWORD_ONLY", "VAR_KEYWORD"}

KindRank(k) ==
  CASE k = "POSITIONAL_ONLY" -> 0
    [] k = "POSITIONAL_OR_KEYWORD" -> 1
    [] k = "VAR_POSITIONAL" -> 2
    [] k = "KEYWORD_ONLY" -> 3
    [] k = "VAR_KEYWORD" -> 4

\* Order of str in Python (sorted() of names).
NameRank(n) ==
  CASE n = "a" -> 1
    [] n = "b" -> 2
    [] n = "z" -> 3

VARIABLES
  sig,        \* signature(func): the sequence of parameters (fixed at wrap time)
  pc,         \* position of apply: which step runs next
  args,       \* positional values of the current call
  kwargs,     \* keyword values of the current call
  values,     \* SignatureCheck fields validated so far (pydantic's `values`)
  errors,     \* errors reported for the current call, in order
  instance,   \* dict(model(...)): coerced value of every supplied scalar field
  forwarded,  \* the call made to func: [pos, kw]
  invoked     \* number of invocations of func during the current call

vars == <<sig, pc, args, kwargs, values, errors, instance, forwarded, invoked>>

-----------------------------------------------------------------------------
\* Helpers on sequences, sets and maps.

Range(s) == {s[i] : i \in DOMAIN s}

Min(x, y) == IF x < y THEN x ELSE y

EmptyMap == [n \in {} |-> None]

\* d1 overridden/extended by d2 ({**d1, **d2}).
Merge(d1, d2) ==
  [n \in DOMAIN d1 \cup DOMAIN d2 |-> IF n \in DOMAIN d2 THEN d2[n] ELSE d1[n]]

RECURSIVE SelectSeq2(_, _)
\* The subsequence of the parameters of kind k, as names.
SelectSeq2(s, k) ==
  IF s = <<>> THEN <<>>
  ELSE (IF Head(s).kind = k THEN <<Head(s).name>> ELSE <<>>) \o SelectSeq2(Tail(s), k)

RECURSIVE sorted(_)
\* sorted(set of names): ascending in str order.
sorted(S) ==
  IF S = {} THEN <<>>
  ELSE LET m == CHOOSE x \in S : \A y \in S : NameRank(x) <= NameRank(y)
       IN <<m>> \o sorted(S \ {m})

-----------------------------------------------------------------------------
\* Signatures (what inspect.signature can return for a Python function).

ParameterDescriptor ==
  [name : Names, kind : Kinds, required : BOOLEAN, annotated : BOOLEAN]

IsPositional(p) == p.kind \in {"POSITIONAL_ONLY", "POSITIONAL_OR_KEYWORD"}
IsVariadic(p) == p.kind \in {"VAR_POSITIONAL", "VAR_KEYWORD"}

ValidSignature(s) ==
  /\ \A i, j \in DOMAIN s : i < j =>
        /\ s[i].name # s[j].name
        /\ KindRank(s[i].kind) <= KindRank(s[j].kind)
        /\ ~(s[i].kind = s[j].kind /\ IsVariadic(s[i]))
        /\ (IsPositional(s[i]) /\ IsPositional(s[j]) /\ ~s[i].required)
              => ~s[j].required
  /\ \A i \in DOMAIN s : IsVariadic(s[i]) => ~s[i].required

\* The functions wrapped: annotated throughout (int) or not at all.
Signatures ==
  UNION {{s \in [1..n -> ParameterDescriptor] :
            /\ ValidSignature(s)
            /\ \A i, j \in DOMAIN s : s[i].annotated = s[j].annotated} : n \in 0..MaxParams}

\* Arguments descriptions by kind.
positional_only(s) == SelectSeq2(s, "POSITIONAL_ONLY")
positional_or_keyword(s) == SelectSeq2(s, "POSITIONAL_OR_KEYWORD")
var_positional(s) == SelectSeq2(s, "VAR_POSITIONAL")
keyword_only(s) == SelectSeq2(s, "KEYWORD_ONLY")
var_keyword(s) == SelectSeq2(s, "VAR_KEYWORD")

vp_name(s) == IF var_positional(s) = <<>> THEN None ELSE var_positional(s)[1]
vk_name(s) == IF var_keyword(s) = <<>> THEN None ELSE var_keyword(s)[1]

sig_pos(s) == positional_only(s) \o positional_or_keyword(s)
sig_kw(s) == Range(positional_or_keyword(s)) \cup Range(keyword_only(s))

-----------------------------------------------------------------------------
\* inspect.Signature.bind / bind_partial, as the validators call it.
\* n positional values and the keyword names kw are bound against s.  The
\* validators catch every TypeError alike, so the result tells only whether
\* the bind succeeded and, if so, which names were bound how:
\*   pos   the parameters bound by position, in order
\*   nstar the number of positional values collected by *args
\*   kw    the parameters bound by keyword
\*   extra the keyword names collected by **kwargs
Bind(s, n, kw, partial) ==
  LET m == Len(sig_pos(s))
      bound == Min(n, m)
      rest == {i \in DOMAIN s : i > bound}
      too_many == n > m /\ vp_name(s) = None
      multiple == \E i \in 1..bound :
                     s[i].kind = "POSITIONAL_OR_KEYWORD" /\ s[i].name \in kw
      pos_only_kw == \E i \in rest :
                        s[i].kind = "POSITIONAL_ONLY" /\ s[i].name \in kw
      missing == /\ ~partial
                 /\ \E i \in rest : /\ ~IsVariadic(s[i])
                                    /\ s[i].required
                                    /\ s[i].name \notin kw
      by_kw == {s[i].name : i \in {j \in rest :
                   s[j].kind \in {"POSITIONAL_OR_KEYWORD", "KEYWORD_ONLY"}}} \cap kw
      leftover == kw \ by_kw
      unexpected == leftover # {} /\ vk_name(s) = None
  IN [ok |-> ~(too_many \/ multiple \/ pos_only_kw \/ missing \/ unexpected),
      pos |-> [i \in 1..bound |-> s[i].name],
      nstar |-> IF n > m THEN n - m ELSE 0,
      kw |-> by_kw,
      extra |-> leftover]

-----------------------------------------------------------------------------
\* Errors.  Every error is a record of the same shape; `names` are the
\* offending names and expected/given the counts of an arity error.
\*   ArityError                    "N positional arguments expected but M given"
\*   UnexpectedKeywordError        "unexpected keyword argument(s): ..."
\*   PositionalOnlyAsKeywordError  "positional-only argument(s) passed as keyword ..."
\*   DuplicateArgumentError        "multiple values for argument(s): ..."
\*   MissingArgumentError          the model's "field required"
\*   TypeCoercionError             the model's type error for one field
\*   ExtraFieldError               the model's "extra fields not permitted"
\*   TypeError                     a Python call with a repeated keyword
Error(kind, names, expected, given) ==
  [kind |-> kind, names |-> names, expected |-> expected, given |-> given]

NoError == Error("", <<>>, 0, 0)

\* The dicts of SignatureCheck.
EmptyArgs == [named |-> <<>>, star |-> <<>>]
EmptyKwargs == [named |-> EmptyMap, dstar |-> EmptyMap, has |-> FALSE]

\* set(args) and set(kwargs): the keys of the two dicts.
ArgKeys(s, d) ==
  {d.named[i][1] : i \in DOMAIN d.named} \cup (IF d.star # <<>> THEN {vp_name(s)} ELSE {})
KwKeys(s, d) ==
  DOMAIN d.named \cup (IF d.has THEN {vk_name(s)} ELSE {})

\* validate_positional reporting the number of all parameters as expected.
validate_positional_all_params(s, a) ==
  LET b == Bind(s, Len(a), {}, TRUE)
  IN IF b.ok
     THEN [err |-> NoError,
           val |-> [named |-> [i \in 1..Len(b.pos) |-> <<b.pos[i], a[i]>>],
                    star |-> SubSeq(a, Len(b.pos) + 1, Len(a))]]
     ELSE [err |-> Error("ArityError", <<>>, Len(s), Len(a)),
           val |-> EmptyArgs]

\* @validator('args', pre=True)
validate_positional(s, a) ==
  LET b == Bind(s, Len(a), {}, TRUE)
  IN IF b.ok
     THEN [err |-> NoError,
           val |-> [named |-> [i \in 1..Len(b.pos) |-> <<b.pos[i], a[i]>>],
                    star |-> SubSeq(a, Len(b.pos) + 1, Len(a))]]
     ELSE [err |-> Error("ArityError", <<>>, Len(sig_pos(s)), Len(a)),
           val |-> EmptyArgs]

\* @validator('kwargs', pre=True)
validate_keyword(s, k) ==
  LET b == Bind(s, 0, DOMAIN k, TRUE)
      unexpected == (DOMAIN k \ sig_kw(s)) \ Range(positional_only(s))
  IN IF b.ok
     THEN [err |-> NoError,
           val |-> [named |-> [n \in b.kw |-> k[n]],
                    dstar |-> [n \in b.extra |-> k[n]],
                    has |-> b.extra # {}]]
     ELSE IF unexpected # {}
     THEN [err |-> Error("UnexpectedKeywordError", sorted(unexpected), 0, 0),
           val |-> EmptyKwargs]
     ELSE [err |-> NoError,
           val |-> [named |-> k, dstar |-> EmptyMap, has |-> FALSE]]

\* The names of S in the order of definition q (the TODO of the validators).
DefinitionOrder(q, S) == SelectSeq(q, LAMBDA n : n \in S)

\* validate_positional_only listing the names in definition order.
validate_positional_only_definition_order(s, vals) ==
  LET k == vals.kwargs
      b == Bind(s, 0, KwKeys(s, k), TRUE)
      pos_only == KwKeys(s, k) \cap Range(positional_only(s))
  IN IF b.ok
     THEN [err |-> NoError,
           val |-> b.kw \cup (IF b.extra # {} THEN {vk_name(s)} ELSE {})]
     ELSE IF pos_only # {}
     THEN [err |-> Error("PositionalOnlyAsKeywordError",
                         DefinitionOrder(positional_only(s), pos_only), 0, 0),
           val |-> {}]
     ELSE [err |-> NoError, val |-> KwKeys(s, k)]

\* @validator('positional_only', pre=True, always=True)
\* vals is pydantic's `values`; the returned dict is never read again, so only
\* its keys are kept.
validate_positional_only(s, vals) ==
  LET k == vals.kwargs
      b == Bind(s, 0, KwKeys(s, k), TRUE)
      pos_only == KwKeys(s, k) \cap Range(positional_only(s))
  IN IF b.ok
     THEN [err |-> NoError,
           val |-> b.kw \cup (IF b.extra # {} THEN {vk_name(s)} ELSE {})]
     ELSE IF pos_only # {}
     THEN [err |-> Error("PositionalOnlyAsKeywordError", sorted(pos_only), 0, 0),
           val |-> {}]
     ELSE [err |-> NoError, val |-> KwKeys(s, k)]

\* validate_multi failing on every failed bind (a missing-argument error of
\* its own) instead of returning the merged map.
validate_multi_raises_missing(s, vals) ==
  LET a == vals.args
      k == vals.kwargs
      b == Bind(s, Len(a.named) + (IF a.star # <<>> THEN 1 ELSE 0), KwKeys(s, k), FALSE)
      multi == ArgKeys(s, a) \cap KwKeys(s, k)
  IN IF b.ok
     THEN [err |-> NoError,
           val |-> Range(b.pos) \cup (IF b.nstar > 0 THEN {vp_name(s)} ELSE {})
                     \cup b.kw \cup (IF b.extra # {} THEN {vk_name(s)} ELSE {})]
     ELSE IF multi # {}
     THEN [err |-> Error("DuplicateArgumentError", sorted(multi), 0, 0),
           val |-> {}]
     ELSE [err |-> Error("MissingArgumentError", <<>>, 0, 0), val |-> {}]

\* @validator('arguments', pre=True, always=True)
\* sig.bind(*args.values(), **kwargs): the tuple stored under vp_name is one
\* positional value and the dict stored under vk_name one keyword.  The
\* returned dict is never read again, so only its keys are kept.
validate_multi(s, vals) ==
  LET a == vals.args
      k == vals.kwargs
      b == Bind(s, Len(a.named) + (IF a.star # <<>> THEN 1 ELSE 0), KwKeys(s, k), FALSE)
      multi == ArgKeys(s, a) \cap KwKeys(s, k)
  IN IF b.ok
     THEN [err |-> NoError,
           val |-> Range(b.pos) \cup (IF b.nstar > 0 THEN {vp_name(s)} ELSE {})
                     \cup b.kw \cup (IF b.extra # {} THEN {vk_name(s)} ELSE {})]
     ELSE IF multi # {}
     THEN [err |-> Error("DuplicateArgumentError", sorted(multi), 0, 0),
           val |-> {}]
     ELSE [err |-> NoError, val |-> ArgKeys(s, a) \cup KwKeys(s, k)]

-----------------------------------------------------------------------------
\* The generated model (create_model with Config.extra = forbid).

\* The value of a field the caller did not supply: its declared default.
Default == "default"
\* The outcome of a failed coercion.
Invalid == "invalid"

\* Validation of one raw value against a declared type: a parameter without
\* annotation is Any (coalesce) and takes every value unchanged; an annotated
\* one is int: '1' and 1 become 1, 'x' is refused.
Coerce(annotated, v) ==
  IF ~annotated THEN v
  ELSE IF v \in {"s1", "i1"} THEN "i1"
  ELSE Invalid

\* The parameter of s called n.
Param(s, n) == s[CHOOSE i \in DOMAIN s : s[i].name = n]

ParamNames(s) == {s[i].name : i \in DOMAIN s}

\* The keyword arguments of model(**sigcheck.args, **sigcheck.kwargs): the
\* non-variadic items of both dicts.
ModelData(a, k) ==
  [n \in {a.named[i][1] : i \in DOMAIN a.named} \cup DOMAIN k.named |->
     IF n \in DOMAIN k.named THEN k.named[n]
     ELSE a.named[CHOOSE i \in DOMAIN a.named : a.named[i][1] = n][2]]

\* The errors of the model, one per failing field, in the order of the fields.
RECURSIVE ModelErrors(_, _, _, _)
ModelErrors(s, i, a, k) ==
  IF i > Len(s) THEN <<>>
  ELSE LET p == s[i]
           data == ModelData(a, k)
           this ==
             CASE p.kind = "VAR_POSITIONAL" ->
                    IF \E j \in DOMAIN a.star : Coerce(p.annotated, a.star[j]) = Invalid
                    THEN <<Error("TypeCoercionError", <<p.name>>, 0, 0)>> ELSE <<>>
               [] p.kind = "VAR_KEYWORD" ->
                    IF \E n \in DOMAIN k.dstar : Coerce(p.annotated, k.dstar[n]) = Invalid
                    THEN <<Error("TypeCoercionError", <<p.name>>, 0, 0)>> ELSE <<>>
               [] OTHER ->
                    IF p.name \in DOMAIN data
                    THEN IF Coerce(p.annotated, data[p.name]) = Invalid
                         THEN <<Error("TypeCoercionError", <<p.name>>, 0, 0)>> ELSE <<>>
                    ELSE IF p.required
                         THEN <<Error("MissingArgumentError", <<p.name>>, 0, 0)>> ELSE <<>>
       IN this \o ModelErrors(s, i + 1, a, k)

\* model(**sigcheck.args, **sigcheck.kwargs), then dict(...) of it.
\* A key present in both dicts is a TypeError of the call itself; a key that
\* is no field is refused (extra = forbid); otherwise every field is validated
\* and the instance holds the coerced value of every field, the default of the
\* fields not supplied included.
model(s, a, k) ==
  LET data == ModelData(a, k)
      extra == DOMAIN data \ ParamNames(s)
      errs == ModelErrors(s, 1, a, k)
              \o (IF extra # {} THEN <<Error("ExtraFieldError", sorted(extra), 0, 0)>> ELSE <<>>)
      scalars == {n \in ParamNames(s) : ~IsVariadic(Param(s, n))}
  IN IF ArgKeys(s, a) \cap KwKeys(s, k) # {}
     THEN [errs |-> <<Error("TypeError", sorted(ArgKeys(s, a) \cap KwKeys(s, k)), 0, 0)>>,
           val |-> [scalar |-> EmptyMap, star |-> <<>>, dstar |-> EmptyMap]]
     ELSE IF errs # <<>>
     THEN [errs |-> errs,
           val |-> [scalar |-> EmptyMap, star |-> <<>>, dstar |-> EmptyMap]]
     ELSE [errs |-> <<>>,
           val |-> [scalar |-> [n \in scalars |->
                                  IF n \in DOMAIN data
                                  THEN Coerce(Param(s, n).annotated, data[n])
                                  ELSE Default],
                    star |-> IF vp_name(s) = None THEN <<>>
                             ELSE [j \in DOMAIN a.star |->
                                     Coerce(Param(s, vp_name(s)).annotated, a.star[j])],
                    dstar |-> IF vk_name(s) = None THEN EmptyMap
                              ELSE [n \in DOMAIN k.dstar |->
                                     Coerce(Param(s, vk_name(s)).annotated, k.dstar[n])]]]

\* instance.get(key, v)
InstanceGet(inst, key, v) == IF key \in DOMAIN inst.scalar THEN inst.scalar[key] ELSE v

\* upd_arg.values(): the coerced value of every non-variadic positional item.
upd_arg(inst, a) ==
  [i \in DOMAIN a.named |-> InstanceGet(inst, a.named[i][1], a.named[i][2])]

\* upd_kw built from every field of the instance instead of the supplied keys.
upd_kw_all_fields(inst, k) ==
  [n \in DOMAIN inst.scalar |-> inst.scalar[n]]

\* upd_kw: the coerced value of every non-variadic keyword item.
upd_kw(inst, k) ==
  [n \in DOMAIN k.named |-> InstanceGet(inst, n, k.named[n])]

\* The positional values handed to func: *upd_arg.values(), *sigcheck.args.get(vp_name, ())
forwarded_pos(inst, a) == upd_arg(inst, a) \o a.star

\* The keyword values handed to func: **upd_kw, **sigcheck.kwargs.get(vk_name, {})
forwarded_kw(inst, k) == Merge(upd_kw(inst, k), k.dstar)

-----------------------------------------------------------------------------
\* The state machine: one call of the wrapper.

NoValues ==
  [present |-> {}, args |-> EmptyArgs, kwargs |-> EmptyKwargs,
   positional_only |-> {}, arguments |-> {}]

NoInstance == [scalar |-> EmptyMap, star |-> <<>>, dstar |-> EmptyMap]
NoCall == [pos |-> <<>>, kw |-> EmptyMap]

\* The calls a caller can make.
CallArgs == UNION {[1..n -> Raw] : n \in 0..MaxArgs}
CallKwargs == UNION {[D -> Raw] : D \in SUBSET Names}

\* validate_arguments(func): the signature is read once.
Init ==
  /\ sig \in Signatures
  /\ pc = "idle"
  /\ args = <<>>
  /\ kwargs = EmptyMap
  /\ values = NoValues
  /\ errors = <<>>
  /\ instance = NoInstance
  /\ forwarded = NoCall
  /\ invoked = 0

\* apply(*args, **kwargs) is entered; SignatureCheck(args=args, kwargs=kwargs)
\* starts validating its fields in order.
Apply ==
  /\ pc = "idle"
  /\ \E a \in CallArgs, k \in CallKwargs :
        /\ args' = a
        /\ kwargs' = k
  /\ pc' = "args"
  /\ UNCHANGED <<sig, values, errors, instance, forwarded, invoked>>

\* pydantic's validate_model for one field: the result of its pre validator is
\* stored in `values`, or its error is recorded and the field left out.
Store(field, r) ==
  IF r.err = NoError
  THEN /\ values' = [values EXCEPT ![field] = r.val, !.present = @ \cup {field}]
       /\ errors' = errors
  ELSE /\ values' = values
       /\ errors' = Append(errors, r.err)

ValidatePositional ==
  /\ pc = "args"
  /\ Store("args", validate_positional(sig, args))
  /\ pc' = "kwargs"
  /\ UNCHANGED <<sig, args, kwargs, instance, forwarded, invoked>>

\* ValidateKeyword skipping its validator once an error is recorded.
ValidateKeywordFailFast ==
  /\ pc = "kwargs"
  /\ IF errors # <<>>
     THEN UNCHANGED <<values, errors>>
     ELSE Store("kwargs", validate_keyword(sig, kwargs))
  /\ pc' = "positional_only"
  /\ UNCHANGED <<sig, args, kwargs, instance, forwarded, invoked>>

ValidateKeyword ==
  /\ pc = "kwargs"
  /\ Store("kwargs", validate_keyword(sig, kwargs))
  /\ pc' = "positional_only"
  /\ UNCHANGED <<sig, args, kwargs, instance, forwarded, invoked>>

ValidatePositionalOnly ==
  /\ pc = "positional_only"
  /\ Store("positional_only", validate_positional_only(sig, values))
  /\ pc' = "arguments"
  /\ UNCHANGED <<sig, args, kwargs, instance, forwarded, invoked>>

\* ValidateMulti with the errors of SignatureCheck swallowed.
ValidateMultiNoRaise ==
  /\ pc = "arguments"
  /\ Store("arguments", validate_multi(sig, values))
  /\ pc' = "model"
  /\ UNCHANGED <<sig, args, kwargs, instance, forwarded, invoked>>

\* The last field; SignatureCheck(...) then raises ValidationError with every
\* recorded error, or returns sigcheck.
ValidateMulti ==
  /\ pc = "arguments"
  /\ Store("arguments", validate_multi(sig, values))
  /\ pc' = IF errors' # <<>> THEN "raised" ELSE "model"
  /\ UNCHANGED <<sig, args, kwargs, instance, forwarded, invoked>>

\* instance = dict(model(**sigcheck.args, **sigcheck.kwargs))
ModelValidate ==
  /\ pc = "model"
  /\ LET r == model(sig, values.args, values.kwargs)
     IN /\ errors' = r.errs
        /\ instance' = r.val
        /\ pc' = IF r.errs # <<>> THEN "raised" ELSE "call"
  /\ UNCHANGED <<sig, args, kwargs, values, forwarded, invoked>>

\* return func(*upd_arg.values(), *args[vp_name], **upd_kw, **kwargs[vk_name])
CallFunc ==
  /\ pc = "call"
  /\ forwarded' = [pos |-> forwarded_pos(instance, values.args),
                   kw |-> forwarded_kw(instance, values.kwargs)]
  /\ invoked' = invoked + 1
  /\ pc' = "returned"
  /\ UNCHANGED <<sig, args, kwargs, values, errors, instance>>

Next ==
  \/ Apply
  \/ ValidatePositional
  \/ ValidateKeyword
  \/ ValidatePositionalOnly
  \/ ValidateMulti
  \/ ModelValidate
  \/ CallFunc

Spec == Init /\ [][Next]_vars

-----------------------------------------------------------------------------
\* Vocabulary of the properties, stated on the signature and the raw call.

Fields == {"args", "kwargs", "positional_only", "arguments"}

AfterStage1 == pc \notin {"idle", "args"}
AfterStage2 == pc \notin {"idle", "args", "kwargs"}
AfterStage3 == pc \notin {"idle", "args", "kwargs", "positional_only"}
AfterStage4 == pc \notin {"idle", "args", "kwargs", "positional_only", "arguments"}
Finished == pc \in {"raised", "returned"}

Reported(kind) == \E i \in DOMAIN errors : errors[i].kind = kind

HasVarPositional == \E i \in DOMAIN sig : sig[i].kind = "VAR_POSITIONAL"
HasVarKeyword == \E i \in DOMAIN sig : sig[i].kind = "VAR_KEYWORD"
NPositional == Cardinality({i \in DOMAIN sig : IsPositional(sig[i])})
PosOnlyNames == {sig[i].name : i \in {j \in DOMAIN sig : sig[j].kind = "POSITIONAL_ONLY"}}
KeywordNames ==
  {sig[i].name : i \in {j \in DOMAIN sig :
      sig[j].kind \in {"POSITIONAL_OR_KEYWORD", "KEYWORD_ONLY"}}}

\* The names of the non-variadic parameters the positional values fill.
PositionalBoundNames ==
  {sig[i].name : i \in {j \in DOMAIN sig : IsPositional(sig[j]) /\ j <= Len(args)}}

\* q lists exactly the names of S in ascending order.
IsSortedListOf(q, S) ==
  /\ Range(q) = S
  /\ \A i, j \in DOMAIN q : i < j => NameRank(q[i]) < NameRank(q[j])

\* The direct full bind of the call against the signature.
DirectBind == Bind(sig, Len(args), DOMAIN kwargs, FALSE)

\* The parameter that receives the i-th positional value / the keyword n in
\* a direct call.
ParamOfPos(i) ==
  IF i <= Len(DirectBind.pos) THEN Param(sig, DirectBind.pos[i])
  ELSE Param(sig, vp_name(sig))
ParamOfKw(n) ==
  IF n \in DirectBind.kw THEN Param(sig, n) ELSE Param(sig, vk_name(sig))

\* Every supplied value is acceptable to the declared type of its parameter.
AllAcceptable ==
  /\ \A i \in DOMAIN args : Coerce(ParamOfPos(i).annotated, args[i]) # Invalid
  /\ \A n \in DOMAIN kwargs : Coerce(ParamOfKw(n).annotated, kwargs[n]) # Invalid

StageRank(kind) ==
  CASE kind = "ArityError" -> 1
    [] kind = "UnexpectedKeywordError" -> 2
    [] kind = "PositionalOnlyAsKeywordError" -> 3
    [] kind = "DuplicateArgumentError" -> 4
    [] OTHER -> 5

BindingErrors ==
  {"ArityError", "UnexpectedKeywordError", "PositionalOnlyAsKeywordError",
   "DuplicateArgumentError", "MissingArgumentError"}

\* The full bind of stage 4, on the fields validated so far.
Stage4Bind ==
  Bind(sig, Len(values.args.named) + (IF values.args.star # <<>> THEN 1 ELSE 0),
       KwKeys(sig, values.kwargs), FALSE)

\* The positions of the errors of stages 1-4 in the report.
StageErrors == {i \in DOMAIN errors : StageRank(errors[i].kind) <= 4}

TooManyPositional == ~HasVarPositional /\ Len(args) > NPositional

-----------------------------------------------------------------------------
\* C1: func is invoked at most once per call, and only when no error was
\* reported, every stage stored its field, the call binds to the signature
\* and every supplied value is acceptable to its parameter's type; a call
\* with any error reported never invokes func.
C1_InvokedOnlyAfterSuccess ==
  /\ invoked <= 1
  /\ errors # <<>> => invoked = 0
  /\ invoked = 1 =>
       /\ values.present = Fields
       /\ ~TooManyPositional
       /\ DirectBind.ok
       /\ AllAcceptable

\* Witness of C1: a call with positional and keyword values reached func.
C1_Witness ==
  /\ pc = "returned"
  /\ invoked = 1
  /\ args # <<>>
  /\ DOMAIN kwargs # {}

\* C2 (as claimed): for calls whose values are all acceptable, func is
\* invoked iff the direct full bind of the call succeeds.
C2_ForwardedIffDirectBind ==
  Finished =>
    /\ (DirectBind.ok /\ AllAcceptable) => invoked = 1
    /\ ~DirectBind.ok => invoked = 0

\* C3 (as claimed): every value that reaches func is the coerced value of
\* what the caller supplied, the elements of *args and the entries of
\* **kwargs included.
C3_ForwardedValuesCoerced ==
  pc = "returned" =>
    /\ Len(forwarded.pos) = Len(args)
    /\ DOMAIN forwarded.kw = DOMAIN kwargs
    /\ \A i \in DOMAIN args :
          forwarded.pos[i] = Coerce(ParamOfPos(i).annotated, args[i])
    /\ \A n \in DOMAIN kwargs :
          forwarded.kw[n] = Coerce(ParamOfKw(n).annotated, kwargs[n])

\* C4: the forwarded call has the caller's shape: as many positional values
\* as supplied, the i-th forwarded one coming from the i-th supplied one, the
\* same keyword names, and no default of an omitted parameter.
C4_CallerShape ==
  pc = "returned" =>
    /\ Len(forwarded.pos) = Len(args)
    /\ \A i \in DOMAIN args : forwarded.pos[i] \in {args[i], Coerce(TRUE, args[i])}
    /\ DOMAIN forwarded.kw = DOMAIN kwargs
    /\ \A n \in DOMAIN kwargs : forwarded.kw[n] \in {kwargs[n], Coerce(TRUE, kwargs[n])}
    /\ \A i \in DOMAIN forwarded.pos : forwarded.pos[i] # Default
    /\ \A n \in DOMAIN forwarded.kw : forwarded.kw[n] # Default

\* Witness of C4: a forwarded call with values collected by *args while a
\* parameter with a default was omitted.
C4_Witness ==
  /\ pc = "returned"
  /\ values.args.star # <<>>
  /\ \E n \in DOMAIN instance.scalar : instance.scalar[n] = Default

\* C5: when stages 1 and 2 did not fail, PositionalOnlyAsKeywordError is
\* reported iff some keyword names a positional-only parameter, and it lists
\* exactly those names in sorted order, with or without **kwargs.
C5_PositionalOnlyAsKeyword ==
  (AfterStage3 /\ {"args", "kwargs"} \subseteq values.present) =>
    /\ Reported("PositionalOnlyAsKeywordError")
          <=> (DOMAIN kwargs \cap PosOnlyNames # {})
    /\ \A i \in DOMAIN errors : errors[i].kind = "PositionalOnlyAsKeywordError" =>
          IsSortedListOf(errors[i].names, DOMAIN kwargs \cap PosOnlyNames)

\* Witness of C5: the error is reported for a signature with **kwargs.
C5_Witness ==
  /\ AfterStage3
  /\ {"args", "kwargs"} \subseteq values.present
  /\ HasVarKeyword
  /\ Reported("PositionalOnlyAsKeywordError")

\* C6 (as claimed): DuplicateArgumentError is reported iff a parameter filled
\* by a positional value is also named by a keyword; it lists exactly those
\* names in sorted order, none of them positional-only.
C6_DuplicateArgument ==
  AfterStage4 =>
    /\ Reported("DuplicateArgumentError")
          <=> (PositionalBoundNames \cap DOMAIN kwargs # {})
    /\ \A i \in DOMAIN errors : errors[i].kind = "DuplicateArgumentError" =>
          /\ IsSortedListOf(errors[i].names, PositionalBoundNames \cap DOMAIN kwargs)
          /\ Range(errors[i].names) \cap PosOnlyNames = {}

\* C7 (as claimed): UnexpectedKeywordError is never reported for a signature
\* with **kwargs, and lists exactly the sorted keyword names that name no
\* parameter.
C7_UnexpectedKeyword ==
  AfterStage2 =>
    \A i \in DOMAIN errors : errors[i].kind = "UnexpectedKeywordError" =>
       /\ ~HasVarKeyword
       /\ errors[i].names # <<>>
       /\ IsSortedListOf(errors[i].names,
                         (DOMAIN kwargs \ PosOnlyNames) \ KeywordNames)

\* C8: stage 1 reports ArityError iff there is no *args and more positional
\* values than positional parameters; expected is the number of positional
\* parameters, given the number of positional values, and given > expected.
C8_ArityError ==
  AfterStage1 =>
    /\ Reported("ArityError") <=> TooManyPositional
    /\ \A i \in DOMAIN errors : errors[i].kind = "ArityError" =>
          /\ errors[i].expected = NPositional
          /\ errors[i].given = Len(args)
          /\ errors[i].given > errors[i].expected

\* Witness of C8: an ArityError for a signature with a positional parameter.
C8_Witness ==
  /\ AfterStage1
  /\ Reported("ArityError")
  /\ NPositional >= 1

\* C9 (as claimed): at most one binding error is reported per call.
C9_FailFast ==
  Cardinality({i \in DOMAIN errors : errors[i].kind \in BindingErrors}) <= 1

\* C9 (amended): the stages are not fail-fast.  All four run on every call;
\* their errors are reported together, at most one per stage and in stage
\* order, at most two per call; a call with too many positional values and a
\* keyword no parameter accepts reports both errors; the errors of the model
\* (missing argument, coercion) are reported only when no stage reported.
C9_StagesAggregate ==
  AfterStage4 =>
    /\ \A i, j \in StageErrors :
          i < j => StageRank(errors[i].kind) < StageRank(errors[j].kind)
    /\ Cardinality(StageErrors) <= 2
    /\ (TooManyPositional /\ ~HasVarKeyword /\ DOMAIN kwargs \ ParamNames(sig) # {})
          => (Reported("ArityError") /\ Reported("UnexpectedKeywordError"))
    /\ StageErrors # {} => StageErrors = DOMAIN errors

\* Witness of C9: two stages report for the same call.
C9_Witness ==
  /\ pc = "raised"
  /\ Reported("ArityError")
  /\ Reported("UnexpectedKeywordError")

\* C10 (as claimed): when stages 1-3 passed, the full bind of stage 4 fails
\* and no name is both bound positionally and present in keyword, stage 4
\* itself fails: it stores no bound-arguments map and the model is not reached.
C10_Stage4RaisesMissing ==
  (/\ AfterStage4
   /\ {"args", "kwargs", "positional_only"} \subseteq values.present
   /\ ~Stage4Bind.ok
   /\ ArgKeys(sig, values.args) \cap KwKeys(sig, values.kwargs) = {}) =>
     /\ "arguments" \notin values.present
     /\ pc = "raised"
     /\ instance = NoInstance

\* C10 (amended): when the full bind of stage 4 fails and no name is both
\* bound positionally and present in keyword, stage 4 reports nothing and
\* returns the merged map of the positional and the keyword names; if no
\* earlier stage failed the arguments go to the model, which reports
\* MissingArgumentError for exactly the unfilled required parameters
\* (together with any coercion error); func is not invoked.
C10_MissingReportedByModel ==
  (/\ AfterStage4
   /\ ~Stage4Bind.ok
   /\ ArgKeys(sig, values.args) \cap KwKeys(sig, values.kwargs) = {}) =>
     /\ "arguments" \in values.present
     /\ values.arguments = ArgKeys(sig, values.args) \cup KwKeys(sig, values.kwargs)
     /\ ~Reported("DuplicateArgumentError")
     /\ invoked = 0
     /\ pc # "call"
     /\ (pc = "raised" /\ values.present = Fields) =>
           \A n \in Names :
              (\E i \in DOMAIN errors :
                  errors[i] = Error("MissingArgumentError", <<n>>, 0, 0))
              <=> (\E j \in DOMAIN sig : /\ sig[j].name = n
                                         /\ sig[j].required
                                         /\ n \notin PositionalBoundNames
                                         /\ n \notin DOMAIN kwargs)

\* Witness of C10: the model reports a missing argument and a coercion error
\* of the same call.
C10_Witness ==
  /\ pc = "raised"
  /\ values.present = Fields
  /\ ~Stage4Bind.ok
  /\ Reported("MissingArgumentError")
  /\ Reported("TypeCoercionError")

====
